---- MODULE Spec2Model ----
(***************************************************************************)
(* Model of sheep_feeding_optimizer.py: a script that builds a             *)
(* mixed-integer ration model with PuLP, solves it once and prints a       *)
(* report.  The script's module-level constants (stage key, forage key,    *)
(* pasture numbers, feed table) are the configuration of a run; one action *)
(* models each block of statements, in source order.                       *)
(*                                                                         *)
(* Numbers.  Table entries are scaled integers:                            *)
(*   percentages        x 100      (9.62 %  -> 962, 14.5 % -> 1450)        *)
(*   pounds in tables   x 100      (2.6 lb  -> 260, 0.05 lb -> 5)          *)
(*   cost per pound     x 100000   (129.99/200 -> 64995)                   *)
(* Derived quantities that involve a division are exact rationals          *)
(* <<num, den>> with den > 0; <<1, 0>> is float('inf') and <<0, 0>> is nan.*)
(* Floating-point rounding is not modelled: arithmetic is exact.           *)
(* The solver explores intakes that are multiples of 1/Grid lb.            *)
(***************************************************************************)
EXTENDS Integers, FiniteSets, Sequences, TLC

VARIABLES
    pc,                    \* position in the script
    config,                \* the run's module-level constants
    nutrition,             \* sheep_nutrition_data[current_nutrition_stage]
    forage,                \* forage_quality[current_forage_stage]
    max_forage_per_sheep,  \* rational lb
    min_forage_per_sheep,  \* rational lb
    max_range_pellet_intake, \* rational lb
    supplements,           \* feed table with the computed pellet bound
    variables,             \* LpVariables created so far: name -> [lowBound, upBound, cat]
    constraints,           \* names of the constraints added to the model
    objective_set,         \* the objective has been added
    solve_called,          \* model.solve was reached
    status,                \* pulp.LpStatus[model.status]
    values,                \* the solver's assignment
    report,                \* what the script printed
    error,                 \* the exception that ended the run, or "none"
    prev                   \* summary of the previous run (for reruns)

vars == <<pc, config, nutrition, forage, max_forage_per_sheep, min_forage_per_sheep,
          max_range_pellet_intake, supplements, variables, constraints, objective_set,
          solve_called, status, values, report, error, prev>>

----------------------------------------------------------------------------
(* Bounds of the exploration *)

Grid == 5          \* intake lattice: 1 unit = 1/Grid lb
MaxUnits == 31     \* largest |intake| explored, in lattice units
MaxFeeds == 2      \* rows of the source feed table taken together

----------------------------------------------------------------------------
(* Exact rational arithmetic *)

Abs(x) == IF x < 0 THEN -x ELSE x

RECURSIVE GCD(_, _)
GCD(a, b) == IF b = 0 THEN a ELSE GCD(b, a % b)

\* n/d in lowest terms with a positive denominator (d # 0)
Rat(n, d) ==
    LET g == GCD(Abs(n), Abs(d))
        s == IF d < 0 THEN -1 ELSE 1
    IN  <<(s * n) \div g, (s * d) \div g>>

Inf == <<1, 0>>
NaN == <<0, 0>>
IsFinite(a) == a[2] # 0

\* a - b has the sign of Cross(a, b): cross-multiplication, common factors removed
Cross(a, b) ==
    LET gd == IF a[2] = 0 \/ b[2] = 0 THEN 1 ELSE GCD(a[2], b[2])
        gn == IF a[1] = 0 \/ b[1] = 0 THEN 1 ELSE GCD(Abs(a[1]), Abs(b[1]))
    IN  (a[1] \div gn) * (b[2] \div gd) - (b[1] \div gn) * (a[2] \div gd)

RLe(a, b) == Cross(a, b) <= 0
RLt(a, b) == Cross(a, b) < 0
REq(a, b) == Cross(a, b) = 0
RMin(a, b) == IF RLe(a, b) THEN a ELSE b
RMul(a, b) ==
    LET p == Rat(a[1], b[2])
        q == Rat(b[1], a[2])
    IN  Rat(p[1] * q[1], p[2] * q[2])
RDiv(a, b) == RMul(a, Rat(b[2], b[1]))
RAdd(a, b) ==
    LET g == GCD(a[2], b[2])
    IN  Rat(a[1] * (b[2] \div g) + b[1] * (a[2] \div g), (a[2] \div g) * b[2])

\* float multiplication where an operand may be inf: inf * 0 is nan
FMul(a, b) ==
    IF IsFinite(a) /\ IsFinite(b) THEN RMul(a, b)
    ELSE IF a = NaN \/ b = NaN \/ a[1] = 0 \/ b[1] = 0 THEN NaN
    ELSE IF (a[1] > 0) = (b[1] > 0) THEN Inf ELSE <<-1, 0>>

----------------------------------------------------------------------------
(* The script's tables *)

sheep_nutrition_data ==
    [Maintenance_Single |->
        [weeks |-> 16, dm_intake |-> 260, tdn |-> 150, protein |-> 25, tdn_pct |-> 5769, protein_pct |-> 962],
     Maintenance_Twin |->
        [weeks |-> 14, dm_intake |-> 260, tdn |-> 150, protein |-> 25, tdn_pct |-> 5769, protein_pct |-> 962],
     Flushing |->
        [weeks |-> 5, dm_intake |-> 400, tdn |-> 230, protein |-> 36, tdn_pct |-> 5750, protein_pct |-> 900],
     Nonlactating |->
        [weeks |-> 15, dm_intake |-> 310, tdn |-> 170, protein |-> 29, tdn_pct |-> 5484, protein_pct |-> 935],
     Last_4_Weeks_Gestation |->
        [weeks |-> 4, dm_intake |-> 400, tdn |-> 230, protein |-> 42, tdn_pct |-> 5750, protein_pct |-> 1050],
     First_6_Weeks_Lactation_Single |->
        [weeks |-> 8, dm_intake |-> 550, tdn |-> 360, protein |-> 73, tdn_pct |-> 6545, protein_pct |-> 1327],
     First_6_Weeks_Lactation_Twin |->
        [weeks |-> 8, dm_intake |-> 620, tdn |-> 400, protein |-> 92, tdn_pct |-> 6452, protein_pct |-> 1484]]

forage_quality ==
    [Early_vegetative |-> [protein |-> 1800, fiber |-> 2400, tdn |-> 6000, dm |-> 2500],
     Late_vegetative  |-> [protein |-> 1500, fiber |-> 2500, tdn |-> 5800, dm |-> 3000],
     Early_flowering  |-> [protein |-> 1500, fiber |-> 2600, tdn |-> 5600, dm |-> 3500],
     Late_flowering   |-> [protein |-> 1000, fiber |-> 2900, tdn |-> 5000, dm |-> 4500],
     Mature           |-> [protein |-> 600,  fiber |-> 3300, tdn |-> 4000, dm |-> 7500],
     Dry              |-> [protein |-> 500,  fiber |-> 3400, tdn |-> 3400, dm |-> 9000],
     Dry_leached      |-> [protein |-> 300,  fiber |-> 3500, tdn |-> 3000, dm |-> 9200]]

Feed(cost, protein, tdn, dm, min_intake, max_intake, is_block) ==
    [cost |-> cost, protein |-> protein, tdn |-> tdn, dm |-> dm,
     min_intake |-> min_intake, max_intake |-> max_intake, is_block |-> is_block]

RangePellet == "Purina_Accuration_Range_Pellet"

\* the supplements literal, with the range pellet's max_intake given
SupplementsTable(pellet_max) ==
    [Corn                     |-> Feed(25000, 900,  9000, 8800, Rat(0, 1), Rat(300, 100), FALSE),
     Soybean_Meal             |-> Feed(30000, 4400, 8000, 8900, Rat(0, 1), Rat(200, 100), FALSE),
     Wheat_Middlings          |-> Feed(13000, 1600, 7700, 8900, Rat(0, 1), Rat(250, 100), FALSE),
     Molasses                 |-> Feed(20000, 400,  7500, 7500, Rat(5, 100), Rat(50, 100), FALSE),
     Limestone                |-> Feed(5000,  0,    0,    9900, Rat(0, 1), Rat(10, 100), FALSE),
     Purina_Accuration        |-> Feed(64995, 2500, 8500, 9000, Rat(0, 1), Rat(100, 100), TRUE),
     Cascade_Pellets          |-> Feed(22980, 1450, 6800, 9000, Rat(0, 1), Rat(200, 100), FALSE),
     Purina_Stocker_Grower    |-> Feed(35980, 1400, 6800, 9000, Rat(0, 1), Rat(200, 100), FALSE),
     Accuration_Block_Concord |-> Feed(64995, 2500, 8500, 9600, Rat(0, 1), Rat(100, 100), TRUE),
     Rangeland_Tub_Wilco      |-> Feed(83992, 2300, 8500, 9600, Rat(0, 1), Rat(100, 100), TRUE),
     Accuration_Block_Wilco   |-> Feed(74995, 2500, 8500, 9600, Rat(0, 1), Rat(100, 100), TRUE),
     Rangeland_Allstock_Tub   |-> Feed(79992, 1500, 8500, 9600, Rat(0, 1), Rat(100, 100), TRUE),
     Purina_Accuration_Range_Pellet |->
                                  Feed(29000, 3300, 8500, 9000, Rat(0, 1), pellet_max, TRUE)]

----------------------------------------------------------------------------
(* Configurations explored.  Every module-level constant of the script is  *)
(* an input of the run; the values the script ships with are among them.   *)

StageInputs == {"Last_4_Weeks_Gestation", "Maintenance_Single", "Unknown_Stage"}
ForageInputs == {"Dry", "Early_vegetative", "Unknown_Forage"}
AvailableForageInputs == {-500, 0, 2000}
StockingInputs == {-90, 0, 90, 750, 800, 900}

Restrict(table, names) == [f \in names |-> table[f]]

\* rows of the source table that are combined, at most MaxFeeds at a time
Shortlist == {"Corn", "Soybean_Meal", "Molasses", "Purina_Accuration", RangePellet}

SourceFeedTables ==
    {Restrict(SupplementsTable(Rat(0, 1)), S) :
        S \in {T \in SUBSET Shortlist : Cardinality(T) <= MaxFeeds}}

\* a table with two block feeds of different price and quality
TwoBlockTable ==
    [Block_A |-> Feed(10000, 1600, 8100, 9000, Rat(0, 1), Rat(200, 100), TRUE),
     Block_B |-> Feed(12000, 2000, 9500, 9000, Rat(0, 1), Rat(200, 100), TRUE)]

\* a table whose only feed has min_intake > max_intake
InvertedBoundsTable ==
    [Molasses |-> Feed(20000, 400, 7500, 7500, Rat(60, 100), Rat(50, 100), FALSE)]

FeedTableInputs == SourceFeedTables \cup {TwoBlockTable, InvertedBoundsTable}

Configs ==
    [current_nutrition_stage : StageInputs,
     current_forage_stage : ForageInputs,
     available_forage_per_acre : AvailableForageInputs,
     sheep_per_acre : StockingInputs,
     feed_table : FeedTableInputs]

----------------------------------------------------------------------------
(* Initial state: the module has been imported and the empty LpProblem     *)
(* created; nothing has been looked up yet.                                *)

UnsetNutrition ==
    [weeks |-> 0, dm_intake |-> 0, tdn |-> 0, protein |-> 0, tdn_pct |-> 0, protein_pct |-> 0]
UnsetForage == [protein |-> 0, fiber |-> 0, tdn |-> 0, dm |-> 0]
NoValues == <<>>
NoReport == [status |-> "", plan |-> <<>>, message |-> ""]
NoRun == [ran |-> FALSE, sheep_per_acre |-> 0, status |-> "", forage_intake |-> 0,
          days_on_pasture |-> NaN]

StartRun(c, p) ==
    /\ pc = "select_stage"
    /\ config = c
    /\ nutrition = UnsetNutrition
    /\ forage = UnsetForage
    /\ max_forage_per_sheep = NaN
    /\ min_forage_per_sheep = NaN
    /\ max_range_pellet_intake = NaN
    /\ supplements = <<>>
    /\ variables = {}
    /\ constraints = {}
    /\ objective_set = FALSE
    /\ solve_called = FALSE
    /\ status = "Not Solved"
    /\ values = NoValues
    /\ report = NoReport
    /\ error = "none"
    /\ prev = p

Init == \E c \in Configs : StartRun(c, NoRun)

Raise(exc) ==
    /\ pc' = "raised"
    /\ error' = exc

----------------------------------------------------------------------------
(* Lines 17-29: nutrition = sheep_nutrition_data[current_nutrition_stage]   *)

SelectNutritionStage ==
    /\ pc = "select_stage"
    /\ IF config.current_nutrition_stage \in DOMAIN sheep_nutrition_data
       THEN /\ nutrition' = sheep_nutrition_data[config.current_nutrition_stage]
            /\ pc' = "select_forage"
            /\ UNCHANGED error
       ELSE /\ Raise("KeyError")
            /\ UNCHANGED nutrition
    /\ UNCHANGED <<config, forage, max_forage_per_sheep, min_forage_per_sheep,
                   max_range_pellet_intake, supplements, variables, constraints,
                   objective_set, solve_called, status, values, report, prev>>

(* Lines 42-51: forage = forage_quality[current_forage_stage]               *)

SelectForageStage ==
    /\ pc = "select_forage"
    /\ IF config.current_forage_stage \in DOMAIN forage_quality
       THEN /\ forage' = forage_quality[config.current_forage_stage]
            /\ pc' = "forage_bounds"
            /\ UNCHANGED error
       ELSE /\ Raise("KeyError")
            /\ UNCHANGED forage
    /\ UNCHANGED <<config, nutrition, max_forage_per_sheep, min_forage_per_sheep,
                   max_range_pellet_intake, supplements, variables, constraints,
                   objective_set, solve_called, status, values, report, prev>>

----------------------------------------------------------------------------
(* Lines 53-62: forage bounds and the forage_intake variable                *)

DailyDmiLimit(n) == Rat(n.dm_intake, 100)

\* variant of MaxForagePerSheep: the stage limit is not applied
MaxForagePerSheep_no_dmi_cap(n, fq, available_forage_per_acre, sheep_per_acre) ==
    RDiv(RDiv(RMul(Rat(available_forage_per_acre, 1), Rat(fq.dm, 100)), Rat(100, 1)),
         Rat(sheep_per_acre, 1))

\* line 58; the caller has checked sheep_per_acre # 0
MaxForagePerSheep(n, fq, available_forage_per_acre, sheep_per_acre) ==
    RMin(DailyDmiLimit(n),
         RDiv(RDiv(RMul(Rat(available_forage_per_acre, 1), Rat(fq.dm, 100)), Rat(100, 1)),
              Rat(sheep_per_acre, 1)))

\* variant of MinForagePerSheep: half the stage limit whatever the pasture allows
MinForagePerSheep_unclamped(n, max_forage) == RMul(DailyDmiLimit(n), Rat(5, 10))

\* line 59
MinForagePerSheep(n, max_forage) ==
    LET half == RMul(DailyDmiLimit(n), Rat(5, 10))
    IN  IF RLe(half, max_forage) THEN half ELSE max_forage

LpVariable(kind, feed, lowBound, upBound, cat) ==
    [name |-> <<kind, feed>>, lowBound |-> lowBound, upBound |-> upBound, cat |-> cat]

ComputeForageBounds ==
    /\ pc = "forage_bounds"
    /\ IF config.sheep_per_acre = 0
       THEN /\ Raise("ZeroDivisionError")
            /\ UNCHANGED <<max_forage_per_sheep, min_forage_per_sheep, variables>>
       ELSE LET mx == MaxForagePerSheep(nutrition, forage,
                          config.available_forage_per_acre, config.sheep_per_acre)
                mn == MinForagePerSheep(nutrition, mx)
            IN  /\ max_forage_per_sheep' = mx
                /\ min_forage_per_sheep' = mn
                /\ variables' = {LpVariable("forage_intake", "", mn, mx, "Continuous")}
                /\ pc' = "range_pellet"
                /\ UNCHANGED error
    /\ UNCHANGED <<config, nutrition, forage, max_range_pellet_intake, supplements,
                   constraints, objective_set, solve_called, status, values, report, prev>>

----------------------------------------------------------------------------
(* Lines 64-90: the one-third protein rule and the supplements table        *)

ProteinReqLbs(n) == RMul(Rat(n.protein_pct, 10000), DailyDmiLimit(n))
TdnReqLbs(n) == RMul(Rat(n.tdn_pct, 10000), DailyDmiLimit(n))

\* variant of MaxRangePelletIntake: the division by 3 is left out
MaxRangePelletIntake_no_third(n) ==
    RDiv(ProteinReqLbs(n), RDiv(Rat(33, 1), Rat(100, 1)))

\* lines 65-68, range_pellet_protein_pct = 33
MaxRangePelletIntake(n) ==
    LET total_protein_required_lbs == ProteinReqLbs(n)
        max_protein_from_supplement_lbs == RDiv(total_protein_required_lbs, Rat(3, 1))
        range_pellet_protein_pct == Rat(33, 1)
    IN  RDiv(max_protein_from_supplement_lbs, RDiv(range_pellet_protein_pct, Rat(100, 1)))

BuildSupplements(table, pellet_max) ==
    [f \in DOMAIN table |->
        IF f = RangePellet THEN [table[f] EXCEPT !.max_intake = pellet_max] ELSE table[f]]

ComputeRangePelletIntake ==
    /\ pc = "range_pellet"
    /\ max_range_pellet_intake' = MaxRangePelletIntake(nutrition)
    /\ supplements' = BuildSupplements(config.feed_table, MaxRangePelletIntake(nutrition))
    /\ pc' = "define_variables"
    /\ UNCHANGED <<config, nutrition, forage, max_forage_per_sheep, min_forage_per_sheep,
                   variables, constraints, objective_set, solve_called, status, values,
                   report, error, prev>>

----------------------------------------------------------------------------
(* Lines 92-99: decision variables.  LpVariable accepts any bounds.         *)

BlockFeeds(table) == {f \in DOMAIN table : table[f].is_block}

SupplementVariables(table) ==
    {LpVariable("intake", f, table[f].min_intake, table[f].max_intake, "Continuous") :
        f \in DOMAIN table}

BlockUsedVariables(table) ==
    {LpVariable("use", f, Rat(0, 1), Rat(1, 1), "Integer") : f \in BlockFeeds(table)}

DefineVariables ==
    /\ pc = "define_variables"
    /\ variables' = variables \cup SupplementVariables(supplements)
                              \cup BlockUsedVariables(supplements)
    /\ pc' = "build_model"
    /\ UNCHANGED <<config, nutrition, forage, max_forage_per_sheep, min_forage_per_sheep,
                   max_range_pellet_intake, supplements, constraints, objective_set,
                   solve_called, status, values, report, error, prev>>

----------------------------------------------------------------------------
(* Lines 101-133: constraints and objective.  An assignment maps every     *)
(* variable name to an integer: lattice units (1/Grid lb) for a continuous *)
(* variable, the value itself for an integer one.                          *)

RECURSIVE lpSum(_)
lpSum(f) ==
    IF DOMAIN f = {} THEN 0
    ELSE LET x == CHOOSE x \in DOMAIN f : TRUE
         IN  f[x] + lpSum([y \in DOMAIN f \ {x} |-> f[y]])

Intake(a, f) == a[<<"intake", f>>]
Use(a, f) == a[<<"use", f>>]
ForageIntake(a) == a[<<"forage_intake", "">>]

\* sum over supplements of table[feed][field] * intake[feed], plus the forage term
NutrientSum(a, table, field, forage_coeff) ==
    lpSum([f \in DOMAIN table |-> table[f][field] * Intake(a, f)])
        + forage_coeff * ForageIntake(a)

\* line 103: intake[feed] <= max_intake[feed] * use[feed]
LinkHolds(a, table, f) ==
    Intake(a, f) * table[f].max_intake[2] <= table[f].max_intake[1] * Use(a, f) * Grid

\* line 106
OneBlockOnlyHolds(a, table) ==
    lpSum([f \in BlockFeeds(table) |-> Use(a, f)]) <= 1

\* variant of ExactDmiHolds: total_feed <= daily_dmi_limit
ExactDmiHolds_at_most(a, table, n) ==
    100 * (ForageIntake(a) + lpSum([f \in DOMAIN table |-> Intake(a, f)]))
        <= n.dm_intake * Grid

\* lines 121-125: total_feed == daily_dmi_limit
ExactDmiHolds(a, table, n) ==
    100 * (ForageIntake(a) + lpSum([f \in DOMAIN table |-> Intake(a, f)]))
        = n.dm_intake * Grid

\* variant of ProteinRequirementHolds: the inequality is reversed
ProteinRequirementHolds_reversed(a, table, n, fq) ==
    100 * NutrientSum(a, table, "protein", fq.protein) <= n.protein_pct * n.dm_intake * Grid

\* lines 117, 128
ProteinRequirementHolds(a, table, n, fq) ==
    100 * NutrientSum(a, table, "protein", fq.protein) >= n.protein_pct * n.dm_intake * Grid

\* lines 118, 129
TdnRequirementHolds(a, table, n, fq) ==
    100 * NutrientSum(a, table, "tdn", fq.tdn) >= n.tdn_pct * n.dm_intake * Grid

\* line 133
DmiLimitHolds(a, table, n, fq) ==
    NutrientSum(a, table, "dm", fq.dm) <= 100 * n.dm_intake * Grid

ConstraintHolds(c, a, table, n, fq) ==
    CASE c[1] = "Link"                -> LinkHolds(a, table, c[2])
      [] c[1] = "One_Block_Only"      -> OneBlockOnlyHolds(a, table)
      [] c[1] = "Exact_DMI"           -> ExactDmiHolds(a, table, n)
      [] c[1] = "Protein_Requirement" -> ProteinRequirementHolds(a, table, n, fq)
      [] c[1] = "TDN_Requirement"     -> TdnRequirementHolds(a, table, n, fq)
      [] c[1] = "DMI_Limit"           -> DmiLimitHolds(a, table, n, fq)

\* lines 102-103
LinkConstraints(table) == {<<"Link", f>> : f \in BlockFeeds(table)}

\* variant of ModelConstraints: One_Block_Only is not added
ModelConstraints_no_one_block(table) ==
    LinkConstraints(table)
        \cup {<<"Exact_DMI", "">>, <<"Protein_Requirement", "">>,
              <<"TDN_Requirement", "">>, <<"DMI_Limit", "">>}

\* every constraint the script adds, lines 101-133
ModelConstraints(table) ==
    LinkConstraints(table)
        \cup {<<"One_Block_Only", "">>, <<"Exact_DMI", "">>, <<"Protein_Requirement", "">>,
              <<"TDN_Requirement", "">>, <<"DMI_Limit", "">>}

\* line 109, in 1e-5 dollars per 1/Grid lb
TotalCost(a, table) == lpSum([f \in DOMAIN table |-> table[f].cost * Intake(a, f)])

BuildModel ==
    /\ pc = "build_model"
    /\ constraints' = ModelConstraints(supplements)
    /\ objective_set' = TRUE
    /\ pc' = "solve"
    /\ UNCHANGED <<config, nutrition, forage, max_forage_per_sheep, min_forage_per_sheep,
                   max_range_pellet_intake, supplements, variables, solve_called, status,
                   values, report, error, prev>>

----------------------------------------------------------------------------
(* Lines 135-137: model.solve(PULP_CBC_CMD()).  The solver is modelled by  *)
(* its contract: Infeasible when no assignment within the variables'       *)
(* bounds satisfies every constraint, otherwise Optimal with any           *)
(* assignment of least cost.                                               *)

\* values a variable may take: lattice points (integers, for an Integer variable)
\* within [lowBound, upBound]
Units(v) ==
    LET scale == IF v.cat = "Integer" THEN 1 ELSE Grid
    IN  {u \in -MaxUnits..MaxUnits :
            /\ v.lowBound[1] * scale <= u * v.lowBound[2]
            /\ u * v.upBound[2] <= v.upBound[1] * scale}

RECURSIVE Assignments(_)
Assignments(vs) ==
    IF vs = {} THEN {<<>>}
    ELSE LET v == CHOOSE v \in vs : TRUE
         IN  {(v.name :> u) @@ a : u \in Units(v), a \in Assignments(vs \ {v})}

FeasibleAssignments(vs, cs, table, n, fq) ==
    {a \in Assignments(vs) : \A c \in cs : ConstraintHolds(c, a, table, n, fq)}

Minimizers(feasible, table) ==
    LET costs == {TotalCost(a, table) : a \in feasible}
        least == CHOOSE m \in costs : \A c \in costs : m <= c
    IN  {a \in feasible : TotalCost(a, table) = least}

Solve ==
    /\ pc = "solve"
    /\ solve_called' = TRUE
    /\ LET feasible == FeasibleAssignments(variables, constraints, supplements,
                                           nutrition, forage)
       IN  IF feasible = {}
           THEN \* what the solver leaves in the variables is never read
                /\ status' = "Infeasible"
                /\ values' = [name \in {v.name : v \in variables} |-> 0]
           ELSE /\ status' = "Optimal"
                /\ values' \in Minimizers(feasible, supplements)
    /\ pc' = "report"
    /\ UNCHANGED <<config, nutrition, forage, max_forage_per_sheep, min_forage_per_sheep,
                   max_range_pellet_intake, supplements, variables, constraints,
                   objective_set, report, error, prev>>

----------------------------------------------------------------------------
(* Lines 139-204: the report.  Solved values are read only in the Optimal  *)
(* branch; any other status prints the fixed message.                      *)

\* variant of DaysOnPasture: herd consumption leaves out the stocking rate
DaysOnPasture_per_head(forage_units, fq, available_forage_per_acre, sheep_per_acre) ==
    LET daily_forage_all_sheep == Rat(forage_units, Grid)
        total_available_forage == RMul(Rat(available_forage_per_acre, 1), Rat(fq.dm, 10000))
    IN  IF daily_forage_all_sheep[1] > 0
        THEN RDiv(total_available_forage, daily_forage_all_sheep)
        ELSE Inf

\* lines 165-168
DaysOnPasture(forage_units, fq, available_forage_per_acre, sheep_per_acre) ==
    LET daily_forage_all_sheep == Rat(forage_units * sheep_per_acre, Grid)
        total_available_forage == RMul(Rat(available_forage_per_acre, 1), Rat(fq.dm, 10000))
    IN  IF daily_forage_all_sheep[1] > 0
        THEN RDiv(total_available_forage, daily_forage_all_sheep)
        ELSE Inf

\* lines 142-202: everything printed under "Optimal"
FeedPlan(a, table, n, fq, available_forage_per_acre, sheep_per_acre) ==
    LET total_supplement == lpSum([f \in DOMAIN table |-> Intake(a, f)])
        total_feed == ForageIntake(a) + total_supplement
        days_on_pasture == DaysOnPasture(ForageIntake(a), fq, available_forage_per_acre,
                                         sheep_per_acre)
        daily_supplement_all_sheep == Rat(total_supplement * sheep_per_acre, Grid)
        daily_cost_per_sheep == Rat(TotalCost(a, table), 100000 * Grid)
        daily_cost_all_sheep == RMul(daily_cost_per_sheep, Rat(sheep_per_acre, 1))
    IN  [forage_intake |-> Rat(ForageIntake(a), Grid),
         supplement_intake |-> [f \in DOMAIN table |-> Rat(Intake(a, f), Grid)],
         total_supplement |-> Rat(total_supplement, Grid),
         total_feed |-> Rat(total_feed, Grid),
         actual_protein |-> Rat(NutrientSum(a, table, "protein", fq.protein), 10000 * Grid),
         actual_tdn |-> Rat(NutrientSum(a, table, "tdn", fq.tdn), 10000 * Grid),
         required_protein |-> ProteinReqLbs(n),
         required_tdn |-> TdnReqLbs(n),
         days_on_pasture |-> days_on_pasture,
         daily_supplement_all_sheep |-> daily_supplement_all_sheep,
         total_supplement_needed |-> FMul(daily_supplement_all_sheep, days_on_pasture),
         \* line 182: only feeds with intake > 0.001 are listed
         feeds_listed |-> {f \in DOMAIN table : 1000 * Intake(a, f) > Grid},
         daily_cost_per_sheep |-> daily_cost_per_sheep,
         daily_cost_all_sheep |-> daily_cost_all_sheep,
         total_grazing_cost |-> FMul(daily_cost_all_sheep, days_on_pasture)]

\* variant of ReportFor: the plan is printed for every status
ReportFor_ungated(st, a, table, n, fq, available_forage_per_acre, sheep_per_acre) ==
    [status |-> st,
     plan |-> <<FeedPlan(a, table, n, fq, available_forage_per_acre, sheep_per_acre)>>,
     message |-> ""]

\* what the run prints for a given status: the plan in a one-element sequence, or nothing
ReportFor(st, a, table, n, fq, available_forage_per_acre, sheep_per_acre) ==
    IF st = "Optimal"
    THEN [status |-> st,
          plan |-> <<FeedPlan(a, table, n, fq, available_forage_per_acre, sheep_per_acre)>>,
          message |-> ""]
    ELSE [status |-> st, plan |-> <<>>,
          message |-> "The model is infeasible. Please check your constraints and inputs."]

Report ==
    /\ pc = "report"
    /\ IF /\ status = "Optimal"
          /\ ForageIntake(values) + lpSum([f \in DOMAIN supplements |-> Intake(values, f)]) = 0
       THEN \* lines 160, 162 divide by total_feed
            /\ Raise("ZeroDivisionError")
            /\ UNCHANGED report
       ELSE /\ report' = ReportFor(status, values, supplements, nutrition, forage,
                                 config.available_forage_per_acre, config.sheep_per_acre)
            /\ pc' = "done"
            /\ UNCHANGED error
    /\ UNCHANGED <<config, nutrition, forage, max_forage_per_sheep, min_forage_per_sheep,
                   max_range_pellet_intake, supplements, variables, constraints,
                   objective_set, solve_called, status, values, prev>>

----------------------------------------------------------------------------
(* A second run of the script with only sheep_per_acre raised; the first   *)
(* run's outcome is kept in prev so that the two can be compared.          *)

RunSummary ==
    [ran |-> TRUE,
     sheep_per_acre |-> config.sheep_per_acre,
     status |-> status,
     forage_intake |-> IF status = "Optimal" THEN ForageIntake(values) ELSE 0,
     days_on_pasture |-> IF status = "Optimal" THEN report.plan[1].days_on_pasture ELSE NaN]

RerunWithHigherStocking ==
    /\ pc = "done"
    /\ ~prev.ran
    /\ \E s \in StockingInputs :
        /\ s > config.sheep_per_acre
        /\ config' = [config EXCEPT !.sheep_per_acre = s]
    /\ prev' = RunSummary
    /\ pc' = "select_stage"
    /\ nutrition' = UnsetNutrition
    /\ forage' = UnsetForage
    /\ max_forage_per_sheep' = NaN
    /\ min_forage_per_sheep' = NaN
    /\ max_range_pellet_intake' = NaN
    /\ supplements' = <<>>
    /\ variables' = {}
    /\ constraints' = {}
    /\ objective_set' = FALSE
    /\ solve_called' = FALSE
    /\ status' = "Not Solved"
    /\ values' = NoValues
    /\ report' = NoReport
    /\ error' = "none"

Next ==
    \/ SelectNutritionStage
    \/ SelectForageStage
    \/ ComputeForageBounds
    \/ ComputeRangePelletIntake
    \/ DefineVariables
    \/ BuildModel
    \/ Solve
    \/ Report
    \/ RerunWithHigherStocking

Spec == Init /\ [][Next]_vars

----------------------------------------------------------------------------
(* Properties *)

ModelBuilt == pc = "solve"
Finished == pc = "done"
BoundsComputed == pc \in {"range_pellet", "define_variables", "build_model", "solve",
                          "report", "done"}

\* the feasible region of the model as built
BuiltFeasible == FeasibleAssignments(variables, constraints, supplements, nutrition, forage)

BlocksWithIntake(a) == {f \in BlockFeeds(supplements) : Intake(a, f) > 0}
BlocksInUse(a) == {f \in BlockFeeds(supplements) : Use(a, f) = 1}

\* C1: in every assignment that satisfies the built model's constraints at most one
\* block feed has intake > 0 and at most one use_ indicator is 1; so too in the
\* assignment the solver returns.
C1_BlockExclusivity ==
    /\ ModelBuilt =>
        \A a \in BuiltFeasible :
            /\ Cardinality(BlocksWithIntake(a)) <= 1
            /\ Cardinality(BlocksInUse(a)) <= 1
    /\ (Finished /\ status = "Optimal") =>
            /\ Cardinality(BlocksWithIntake(values)) <= 1
            /\ Cardinality(BlocksInUse(values)) <= 1

\* a built model with two block feeds, one of them the range pellet, and a feasible
\* assignment that feeds the pellet
C1_Witness ==
    /\ ModelBuilt
    /\ Cardinality(BlockFeeds(supplements)) >= 2
    /\ RangePellet \in DOMAIN supplements
    /\ \E a \in BuiltFeasible : Intake(a, RangePellet) > 0

\* C2: after an Optimal solve the recomputed protein and TDN pounds are at least the
\* stage's required pounds.
C2_NutrientSufficiency ==
    (Finished /\ status = "Optimal") =>
        /\ RLe(RMul(Rat(nutrition.protein_pct, 10000), Rat(nutrition.dm_intake, 100)),
               report.plan[1].actual_protein)
        /\ RLe(RMul(Rat(nutrition.tdn_pct, 10000), Rat(nutrition.dm_intake, 100)),
               report.plan[1].actual_tdn)

\* an Optimal run on poor forage whose ration needs a supplement
C2_Witness ==
    /\ Finished
    /\ status = "Optimal"
    /\ config.current_forage_stage = "Dry"
    /\ \E f \in DOMAIN supplements : Intake(values, f) > 0

\* C3: after an Optimal solve forage plus supplements equals daily_dmi_limit exactly.
C3_ExactDmi ==
    (Finished /\ status = "Optimal") =>
        /\ REq(report.plan[1].total_feed, Rat(nutrition.dm_intake, 100))
        /\ REq(RAdd(report.plan[1].forage_intake, report.plan[1].total_supplement),
               Rat(nutrition.dm_intake, 100))

\* an Optimal run in which both forage and a supplement are fed
C3_Witness ==
    /\ Finished
    /\ status = "Optimal"
    /\ ForageIntake(values) > 0
    /\ \E f \in DOMAIN supplements : Intake(values, f) > 0

ForageVariable == CHOOSE v \in variables : v.name = <<"forage_intake", "">>

DegenerateForage ==
    \/ config.sheep_per_acre = 0
    \/ /\ config.sheep_per_acre > 0
       /\ config.available_forage_per_acre <= 0
    \/ /\ config.sheep_per_acre < 0
       /\ config.available_forage_per_acre >= 0

\* C5: with a non-positive forage upper bound (forage <= 0, or stocking <= 0) model
\* construction does not raise and the forage variable is bounded to [0, 0].
C5_DegenerateForage ==
    (DegenerateForage /\ pc \notin {"select_stage", "select_forage", "forage_bounds"}
        /\ error # "KeyError") =>
        /\ error = "none"
        /\ REq(ForageVariable.lowBound, Rat(0, 1))
        /\ REq(ForageVariable.upBound, Rat(0, 1))

BadFeedBounds(table) == \E f \in DOMAIN table : RLt(table[f].max_intake, table[f].min_intake)

InvalidConfig ==
    \/ config.current_nutrition_stage \notin DOMAIN sheep_nutrition_data
    \/ config.current_forage_stage \notin DOMAIN forage_quality
    \/ config.sheep_per_acre <= 0
    \/ BadFeedBounds(config.feed_table)

\* C6: a run with an unknown stage or forage key, a non-positive stocking rate or a
\* feed with min_intake > max_intake creates no variable and no constraint and never
\* reaches model.solve.
C6_ConfigErrorsFailFast ==
    InvalidConfig =>
        /\ variables = {}
        /\ constraints = {}
        /\ ~solve_called
        /\ pc # "done"

StatusNames == {"Optimal", "Infeasible", "Unbounded", "Not Solved"}

TwoOptimalRuns ==
    /\ Finished
    /\ prev.ran
    /\ prev.status = "Optimal"
    /\ status = "Optimal"
    /\ 0 < prev.sheep_per_acre
    /\ prev.sheep_per_acre < config.sheep_per_acre

\* C8 as stated: of two Optimal runs that differ only in stocking rate, the one with
\* the higher rate never reports more days on pasture.
C8_DaysMonotone ==
    TwoOptimalRuns => RLe(report.plan[1].days_on_pasture, prev.days_on_pasture)

\* C8 amended: the same, when the second run's solved forage intake is not below the
\* first run's or sits at its upper bound.
C8_DaysMonotoneAmended ==
    (/\ TwoOptimalRuns
     /\ \/ ForageIntake(values) >= prev.forage_intake
        \/ REq(Rat(ForageIntake(values), Grid), max_forage_per_sheep)) =>
        RLe(report.plan[1].days_on_pasture, prev.days_on_pasture)

\* two Optimal runs where the denser herd eats less forage per head, at its bound,
\* and the pasture lasts strictly shorter
C8_Witness ==
    /\ TwoOptimalRuns
    /\ ForageIntake(values) < prev.forage_intake
    /\ REq(Rat(ForageIntake(values), Grid), max_forage_per_sheep)
    /\ RLt(report.plan[1].days_on_pasture, prev.days_on_pasture)

C9_Config ==
    /\ config.current_nutrition_stage = "Last_4_Weeks_Gestation"
    /\ config.current_forage_stage = "Dry"
    /\ config.available_forage_per_acre = 2000
    /\ config.sheep_per_acre = 90
    /\ DOMAIN config.feed_table = {}

\* C9: Last_4_Weeks_Gestation on Dry forage, 2000 lb/acre, 90 sheep/acre, no
\* supplement: the forage upper bound is 4.0, no assignment satisfies the
\* constraints, forage at 4.0 lb gives 0.20 lb protein against 0.42 lb, and the
\* status is Infeasible.
C9_ForageOnlyInfeasible ==
    C9_Config =>
        /\ BoundsComputed => REq(max_forage_per_sheep, Rat(4, 1))
        /\ ModelBuilt =>
            /\ BuiltFeasible = {}
            /\ REq(RMul(max_forage_per_sheep, Rat(forage.protein, 10000)), Rat(20, 100))
            /\ REq(ProteinReqLbs(nutrition), Rat(42, 100))
        /\ solve_called => status = "Infeasible"

C9_Witness ==
    /\ C9_Config
    /\ Finished
    /\ status = "Infeasible"

PelletModelled == RangePellet \in DOMAIN supplements

\* C10: the range pellet's upper bound is ((protein_pct/100 * dm_intake) / 3) / 0.33,
\* and in every assignment satisfying the constraints the pellet supplies at most a
\* third of the required protein pounds.
C10_OneThirdProtein ==
    /\ PelletModelled =>
        /\ REq(RMul(supplements[RangePellet].max_intake, Rat(3 * 33, 100)),
               Rat(nutrition.protein_pct * nutrition.dm_intake, 1000000))
        /\ supplements[RangePellet].max_intake = max_range_pellet_intake
    /\ (PelletModelled /\ ModelBuilt) =>
        \A a \in BuiltFeasible :
            3 * Intake(a, RangePellet) * supplements[RangePellet].protein * 100
                <= nutrition.protein_pct * nutrition.dm_intake * Grid
    /\ (PelletModelled /\ Finished /\ status = "Optimal") =>
        3 * Intake(values, RangePellet) * supplements[RangePellet].protein * 100
            <= nutrition.protein_pct * nutrition.dm_intake * Grid

\* a built model with a feasible assignment that feeds the range pellet
C10_Witness ==
    /\ ModelBuilt
    /\ PelletModelled
    /\ \E a \in BuiltFeasible : Intake(a, RangePellet) > 0

====
